---- MODULE Spec2Model ----
(***************************************************************************)
(* A model of pyfoot (src/pyfoot/main.py): the type-keyed actor registry   *)
(* of World, the rotation setter of Actor, and the damage-tracking redraw  *)
(* of Actor._update / World._update driven by the frame loop of start().   *)
(*                                                                         *)
(* Pixels are not colours but owners: a pixel of the display holds the id  *)
(* of the actor whose (opaque) image was blitted there last, Background    *)
(* for the world's background, or Blank for the untouched window.          *)
(***************************************************************************)
EXTENDS Integers, Sequences, FiniteSets, TLC

\* ------------------------------------------------------------------ bounds
NumActors  == 4      \* actor objects the user program creates
FrameActors == 2     \* of these, the ones that a rendered world may hold
MaxArgs    == 1      \* actors passed to one World.add / World.remove call
MaxTypes   == 3      \* types passed to one World.set_paint_order call
MaxPixW    == 4      \* width of the window in pixels
MaxPixH    == 1      \* height of the window in pixels
MaxAngle   == 2      \* rotation assignments range over -MaxAngle*360 .. +MaxAngle*360
MaxOffset  == 1      \* pixel offsets range over 0 .. MaxOffset

\* Values of different kinds are records, so that any two can be compared:
\* Python's None, a returned list, a returned rectangle, a raised exception.
None == [kind |-> "None"]

RetList(l) == [kind |-> "list", list |-> l]

RetRect(r) == [kind |-> "rect", rect |-> r]

Raise(exc) == [kind |-> "raise", exc |-> exc]

ActorIds == 1..NumActors

\* What a pixel shows that is no actor: the world's background image, or
\* nothing yet (the window as pygame.display.set_mode made it).
Background == 0

Blank == -1

\* WORLD = None: no world is active. The World objects are 1 and 2.
NoWorld == 0

WorldIds == {1, 2}

\* The user's subclasses of Actor; "Actor" is the base class itself, "int" a
\* class that is no Actor.
ClassNames == <<"A", "B", "C">>
ActorClasses == {ClassNames[i] : i \in 1..Len(ClassNames)}
AllClasses == ActorClasses \cup {"Actor", "int"}

\* type(act): the runtime class of each actor object.
TypeOf(a) == ClassNames[((a - 1) % Len(ClassNames)) + 1]

\* issubclass(cls, Actor)
IsActorClass(cls) == cls \in ActorClasses \cup {"Actor"}

VARIABLES
    actors,      \* World.actors: the OrderedDict, a sequence of [cls, objs]
    cell_size,   \* World.cell_size
    width,       \* World.width, in pixels
    height,      \* World.height, in pixels
    bg_dirty,    \* World.bg._requires_update
    display,     \* World._display: the surface the blits go to
    screen,      \* what pygame.display.update has presented of it
    x, y,        \* Actor.x, Actor.y (cells)
    x_offset,    \* Actor.x_offset (pixels)
    y_offset,    \* Actor.y_offset (pixels)
    rotation,    \* Actor.__rotation
    image,       \* Actor._image: [w, h, dirty] (the surface's size, _requires_update)
    rendered,    \* Actor._rendered_img: [w, h]
    prev_rect,   \* Actor._prev_rect: None or a rectangle
    pc,          \* where the program is: "setup", or a place in start()'s loop
    queue,       \* the rest of `for actor in WORLD.get_objects()`
    call,        \* the most recent call: [op, arg]
    result       \* what it returned or raised

VARIABLES
    WORLD,       \* the module's WORLD: the active world, or NoWorld
    worlds,      \* the World objects the program has created
    made,        \* the Actor objects the program has constructed
    actors2,     \* World.actors of the second World object
    mouse,       \* pygame.mouse.get_pos()
    pressed,     \* pygame.mouse.get_pressed(): <<left, middle, right>>
    trigger_on_relief,  \* Actor.trigger_on_relief
    canvas       \* an Image of the program: [w, h] its surface's size,
                 \* [ox, oy] where on it its first content's top left sits,
                 \* dirty its _requires_update

worldVars == <<actors, cell_size, width, height, bg_dirty, display, screen>>
actorVars == <<x, y, x_offset, y_offset, rotation, image, rendered, prev_rect>>
loopVars  == <<pc, queue>>
globalVars == <<WORLD, worlds, made, actors2>>
mouseVars == <<mouse, pressed, trigger_on_relief>>
vars == <<actors, cell_size, width, height, bg_dirty, display, screen,
          x, y, x_offset, y_offset, rotation, image, rendered, prev_rect,
          pc, queue, call, result,
          WORLD, worlds, made, actors2, mouse, pressed, trigger_on_relief, canvas>>

\* ------------------------------------------------------------- sequences
Range(s) == {s[i] : i \in 1..Len(s)}

IndexOf(s, e) == CHOOSE i \in 1..Len(s) : s[i] = e

RECURSIVE Flatten(_)
Flatten(ss) == IF ss = <<>> THEN <<>> ELSE Head(ss) \o Flatten(Tail(ss))

\* s without its element e (a sequence without duplicates)
Without(s, e) == SelectSeq(s, LAMBDA v : v # e)

\* s with e put in at position i (1 .. Len(s)+1)
InsertAt(s, i, e) == SubSeq(s, 1, i - 1) \o <<e>> \o SubSeq(s, i, Len(s))

\* Sequences over S of length lo..hi
SeqsOf(S, lo, hi) == UNION {[1..n -> S] : n \in lo..hi}

\* ------------------------------------------------------------ the registry
\* World.actors is an OrderedDict from a class to a set of actors. It is kept
\* as a sequence of buckets in key order; a bucket's objs is the set in its
\* iteration order, which Python leaves unspecified: `slots` says, for every
\* actor of a call, whether its insertion comes first in that order or last.
Keys(reg) == [i \in 1..Len(reg) |-> reg[i].cls]

HasKey(reg, cls) == \E i \in 1..Len(reg) : reg[i].cls = cls

Bucket(reg, cls) == reg[CHOOSE i \in 1..Len(reg) : reg[i].cls = cls].objs

\* self.actors.setdefault(key, set())
SetDefault(reg, cls) ==
    IF HasKey(reg, cls) THEN reg ELSE Append(reg, [cls |-> cls, objs |-> <<>>])

\* one turn of the loop of World.add: self.actors.setdefault(type(act), set()).add(act)
AddMutantFront(reg, a, slot) ==
    LET r == IF HasKey(reg, TypeOf(a)) THEN reg
             ELSE <<[cls |-> TypeOf(a), objs |-> <<>>]>> \o reg
    IN [i \in 1..Len(r) |->
        IF r[i].cls = TypeOf(a) /\ a \notin Range(r[i].objs)
        THEN [r[i] EXCEPT !.objs = InsertAt(@, IF slot THEN 1 ELSE Len(@) + 1, a)]
        ELSE r[i]]

AddMutantList(reg, a, slot) ==
    LET r == SetDefault(reg, TypeOf(a))
    IN [i \in 1..Len(r) |->
        IF r[i].cls = TypeOf(a)
        THEN [r[i] EXCEPT !.objs = InsertAt(@, IF slot THEN 1 ELSE Len(@) + 1, a)]
        ELSE r[i]]

AddOne(reg, a, slot) ==
    LET r == SetDefault(reg, TypeOf(a))
    IN [i \in 1..Len(r) |->
        IF r[i].cls = TypeOf(a) /\ a \notin Range(r[i].objs)
        THEN [r[i] EXCEPT !.objs = InsertAt(@, IF slot THEN 1 ELSE Len(@) + 1, a)]
        ELSE r[i]]

\* World.add(*objs)
RECURSIVE WorldAdd(_, _, _)
WorldAdd(reg, objs, slots) ==
    IF objs = <<>> THEN reg
    ELSE WorldAdd(AddOne(reg, Head(objs), Head(slots)), Tail(objs), Tail(slots))

\* one turn of the loop of World.remove: self.actors.get(type(act), set()).discard(act)
RemoveOne(reg, a) ==
    [i \in 1..Len(reg) |->
        IF reg[i].cls = TypeOf(a)
        THEN [reg[i] EXCEPT !.objs = Without(@, a)]
        ELSE reg[i]]

\* World.remove(*objs)
RECURSIVE WorldRemove(_, _)
WorldRemove(reg, objs) ==
    IF objs = <<>> THEN reg
    ELSE WorldRemove(RemoveOne(reg, Head(objs)), Tail(objs))

\* order_dict = {v: k for k, v in dict(enumerate(types)).items()}, then
\* order_dict.get(cls, -1): the last place of cls in types, counted from 0.
OrderKey(types, cls) ==
    IF cls \in Range(types)
    THEN (CHOOSE i \in 1..Len(types) :
            /\ types[i] = cls
            /\ \A j \in (i + 1)..Len(types) : types[j] # cls) - 1
    ELSE -1

\* for key in order_dict.keys(): self.actors.setdefault(key, set())
RECURSIVE SetDefaultAll(_, _)
SetDefaultAll(reg, types) ==
    IF types = <<>> THEN reg
    ELSE SetDefaultAll(SetDefault(reg, Head(types)), Tail(types))

\* sorted(items, key=...): Python's sort is stable
RECURSIVE SortedFrom(_, _, _, _)
SortedFrom(reg, types, k, last) ==
    IF k > last THEN <<>>
    ELSE SelectSeq(reg, LAMBDA b : OrderKey(types, b.cls) = k)
            \o SortedFrom(reg, types, k + 1, last)

SetPaintOrderMutantDrop(reg, types) ==
    LET r == SetDefaultAll(reg, types)
    IN SortedFrom(r, types, 0, Len(types) - 1)

SetPaintOrderMutantRev(reg, types) ==
    LET r == SetDefaultAll(reg, types)
        n == Len(types)
        rev == [i \in 1..n |-> types[n + 1 - i]]
    IN SortedFrom(r, rev, -1, n - 1)

\* World.set_paint_order(*types)
SetPaintOrder(reg, types) ==
    LET r == SetDefaultAll(reg, types)
    IN SortedFrom(r, types, -1, Len(types) - 1)

GetObjectsMutantNoBase(reg, cls) ==
    IF ~IsActorClass(cls) THEN Raise("TypeError")
    ELSE IF HasKey(reg, cls) THEN RetList(Bucket(reg, cls)) ELSE RetList(<<>>)

\* World.get_objects(cls): the list returned, or the exception raised
GetObjects(reg, cls) ==
    IF ~IsActorClass(cls) THEN Raise("TypeError")
    ELSE IF cls = "Actor" THEN RetList(Flatten([i \in 1..Len(reg) |-> reg[i].objs]))
    ELSE IF HasKey(reg, cls) THEN RetList(Bucket(reg, cls)) ELSE RetList(<<>>)

\* ---------------------------------------------------------------- rotation
\* The two while loops of the rotation setter.
RECURSIVE Normalize(_)
Normalize(angle) ==
    IF angle < 0 THEN Normalize(angle + 360)
    ELSE IF angle > 360 THEN Normalize(angle - 360)
    ELSE angle

\* Actor.rotation's setter: the new [rotation, dirty] of an actor whose
\* rotation is rot and whose image's _requires_update is dirty.
SetRotationMutantAlwaysDirty(rot, dirty, angle) ==
    [rotation |-> Normalize(angle), dirty |-> TRUE]

SetRotation(rot, dirty, angle) ==
    LET a == Normalize(angle)
    IN IF rot # a THEN [rotation |-> a, dirty |-> TRUE]
       ELSE [rotation |-> rot, dirty |-> dirty]

\* -------------------------------------------------------------- rectangles
\* pygame.Rect
Rect(px, py, w, h) == [x |-> px, y |-> py, w |-> w, h |-> h]

TopLeft(r) == <<r.x, r.y>>

\* surface.get_rect(topleft=pos) / surface.get_rect(x=.., y=..)
GetRect(size, pos) == Rect(pos[1], pos[2], size.w, size.h)

\* pygame.Rect.clip: the overlap of A and B, or (A.x, A.y, 0, 0) if there is none
ClipMutantWhole(A, B) == A

Clip(A, B) ==
    LET okx == \/ (A.x >= B.x /\ A.x < B.x + B.w)
               \/ (B.x >= A.x /\ B.x < A.x + A.w)
        cx  == IF A.x >= B.x /\ A.x < B.x + B.w THEN A.x ELSE B.x
        okw == \/ (A.x + A.w > B.x /\ A.x + A.w <= B.x + B.w)
               \/ (B.x + B.w > A.x /\ B.x + B.w <= A.x + A.w)
        cw  == IF A.x + A.w > B.x /\ A.x + A.w <= B.x + B.w
               THEN A.x + A.w - cx ELSE B.x + B.w - cx
        oky == \/ (A.y >= B.y /\ A.y < B.y + B.h)
               \/ (B.y >= A.y /\ B.y < A.y + A.h)
        cy  == IF A.y >= B.y /\ A.y < B.y + B.h THEN A.y ELSE B.y
        okh == \/ (A.y + A.h > B.y /\ A.y + A.h <= B.y + B.h)
               \/ (B.y + B.h > A.y /\ B.y + B.h <= A.y + A.h)
        ch  == IF A.y + A.h > B.y /\ A.y + A.h <= B.y + B.h
               THEN A.y + A.h - cy ELSE B.y + B.h - cy
    IN IF okx /\ okw /\ oky /\ okh THEN Rect(cx, cy, cw, ch)
       ELSE Rect(A.x, A.y, 0, 0)

\* pygame.Rect.colliderect (the test of collidelistall)
CollideRect(A, B) ==
    /\ A.w # 0 /\ A.h # 0 /\ B.w # 0 /\ B.h # 0
    /\ A.x < B.x + B.w /\ A.y < B.y + B.h
    /\ A.x + A.w > B.x /\ A.y + A.h > B.y

\* the pixel p = <<px, py>> lies in r
InRect(p, r) ==
    /\ r.x <= p[1] /\ p[1] < r.x + r.w
    /\ r.y <= p[2] /\ p[2] < r.y + r.h

\* ---------------------------------------------------------------- surfaces
\* pygame.transform.rotate(surface, angle): the size of the rotated surface.
\* Only quarter turns are drawn by the frame specifications: they keep an
\* opaque rectangle an opaque rectangle.
RotatedSize(img, angle) ==
    CASE angle % 180 = 0  -> [w |-> img.w, h |-> img.h]
      [] angle % 180 = 90 -> [w |-> img.h, h |-> img.w]

Pixels(w, h) == (0..(w - 1)) \X (0..(h - 1))

\* pygame.display.set_mode((width, height)): the untouched window
NewSurface(w, h) == [p \in Pixels(w, h) |-> Blank]

\* surface.get_rect() of the display and of the world's background
SurfaceRect(w, h) == Rect(0, 0, w, h)

\* Surface.blit(source, dest): the pixels of r that lie on surf now show owner
Blit(surf, owner, r) ==
    [p \in DOMAIN surf |-> IF InRect(p, r) THEN owner ELSE surf[p]]

\* Surface.subsurface(r) of a surface of the given size raises ValueError
\* unless r lies inside the surface
SubsurfaceOk(size, r) ==
    /\ r.x >= 0 /\ r.y >= 0
    /\ r.x + r.w <= size.w /\ r.y + r.h <= size.h

\* pygame.display.update(rects): the screen shows the display inside rects
Present(scr, surf, rects) ==
    [p \in DOMAIN scr |->
        IF \E i \in 1..Len(rects) : InRect(p, rects[i]) THEN surf[p] ELSE scr[p]]

\* ------------------------------------------------------------ Actor._update
\* (x * cell_size, y * cell_size): where the overlap test and to_image_pos
\* take an actor to be
CellPos(a) == <<x[a] * cell_size, y[a] * cell_size>>

\* new_pos of Actor._update, also where World._update blits the actor
NewPosMutantNoOffset(a) == <<x[a] * cell_size, y[a] * cell_size>>

NewPos(a) == <<x[a] * cell_size + x_offset[a], y[a] * cell_size + y_offset[a]>>

\* Actor.to_image_pos(pos)
ToImagePos(a, pos) == <<pos[1] - x[a] * cell_size, pos[2] - y[a] * cell_size>>

\* the condition of the if of Actor._update
NeedsRepaintMutantAlways(a) == TRUE

NeedsRepaint(a) ==
    \/ image[a].dirty
    \/ prev_rect[a] = None
    \/ NewPos(a) # TopLeft(prev_rect[a])

\* act._rendered_img.get_rect(x=act.x * cell_size, y=act.y * cell_size), the
\* rectangle the overlap test of _update gives to collidelistall
OverlapRect(a) == GetRect(rendered[a], CellPos(a))

\* rect.collidelistall(...) mapped back to the actors: those of list, in
\* order, whose OverlapRect collides with rect
Overlapping(rect, list) ==
    SelectSeq(list, LAMBDA a : CollideRect(rect, OverlapRect(a)))

\* get_render_info(actor) for the damage rectangle rect, whose clip to the
\* actor's _prev_rect is sub: the subsurface of the rendered image at
\* to_image_pos(sub.topleft), staged for a blit at sub.topleft (so onto sub),
\* or ValueError if that subsurface lies outside the rendered image. prev is
\* the _prev_rect the actor has, or is given if it had none.
StageInfo(acc, a, side, prev, sub) ==
    IF ~SubsurfaceOk(rendered[a],
                     Rect(ToImagePos(a, TopLeft(sub))[1],
                          ToImagePos(a, TopLeft(sub))[2], sub.w, sub.h))
    THEN [acc EXCEPT !.prev[a] = prev, !.err = "ValueError"]
    ELSE [acc EXCEPT !.prev[a] = prev,
                     ![side] = Append(@, [owner |-> a, rect |-> sub])]

\* actor._prev_rect in get_render_info, set from the image if it is None
PrevOrImageRect(acc, a) ==
    IF acc.prev[a] = None THEN GetRect(image[a], CellPos(a)) ELSE acc.prev[a]

StageActor(acc, rect, a, side) ==
    StageInfo(acc, a, side, PrevOrImageRect(acc, a), Clip(rect, PrevOrImageRect(acc, a)))

\* render_xxx_all.extend(map(get_render_info, overlapping_actors)): acc.prev
\* holds every actor's _prev_rect, acc[side] the staged blits; an exception
\* ends the staging.
RECURSIVE Stage(_, _, _, _)
Stage(acc, rect, list, side) ==
    IF list = <<>> \/ acc.err # "" THEN acc
    ELSE Stage(StageActor(acc, rect, Head(list), side), rect, Tail(list), side)

StageSides(acc, rect, render_before, render_after) ==
    Stage(Stage(acc, rect, Overlapping(rect, render_before), "before"),
          rect, Overlapping(rect, render_after), "after")

\* other_objs = world.get_objects(); if len(other_objs) > 1:
\* self_i = other_objs.index(self), which raises ValueError if self is not
\* in the world
StageOthers(acc, self, rect, other_objs) ==
    IF Len(other_objs) <= 1 THEN acc
    ELSE IF self \notin Range(other_objs) THEN [acc EXCEPT !.err = "ValueError"]
    ELSE StageSides(acc, rect,
                    SubSeq(other_objs, 1, IndexOf(other_objs, self) - 1),
                    SubSeq(other_objs, IndexOf(other_objs, self) + 1, Len(other_objs)))

\* world._display.blit(world.bg.surface.subsurface(rect), rect.topleft) and
\* areas_to_update.append(rect)
RestoreBackground(acc, rect) ==
    [acc EXCEPT !.disp = Blit(@, Background, rect), !.areas = Append(@, rect)]

\* the body of `for rect in all_rects` for rect already clipped to the
\* background
DamageClipped(acc, self, rect) ==
    IF acc.err # "" \/ (rect.w = 0 /\ rect.h = 0) THEN acc
    ELSE StageOthers(RestoreBackground(acc, rect), self, rect,
                     GetObjects(actors, "Actor").list)

RECURSIVE DamageRects(_, _, _)
DamageRects(acc, self, rects) ==
    IF rects = <<>> THEN acc
    ELSE DamageRects(DamageClipped(acc, self,
                                   Clip(Head(rects), SurfaceRect(width, height))),
                     self, Tail(rects))

\* world._display.blit(source, dest) with the returned rectangle collected
BlitOne(acc, owner, rect) ==
    [acc EXCEPT !.disp = Blit(@, owner, rect),
                !.areas = Append(@, Clip(rect, SurfaceRect(width, height)))]

\* the blits of a staged list
RECURSIVE BlitAll(_, _)
BlitAll(acc, infos) ==
    IF infos = <<>> THEN acc
    ELSE BlitAll(BlitOne(acc, Head(infos).owner, Head(infos).rect), Tail(infos))

\* all_rects of Actor._update
AllRectsMutantNewOnly(self, new_rect) == <<new_rect>>

AllRects(self, new_rect) ==
    IF prev_rect[self] # None THEN <<new_rect, prev_rect[self]>> ELSE <<new_rect>>

\* what an _update leaves behind: the display, every actor's _prev_rect,
\* self's rendered image (of size rend) and cleared image flag, and ret, the
\* value returned or the exception raised
Outcome(self, rend, disp, prev, ret) ==
    [disp |-> disp, prev |-> prev,
     rendered |-> [rendered EXCEPT ![self] = rend],
     image |-> [image EXCEPT ![self].dirty = FALSE],
     ret |-> ret]

\* lines 475-481: self._prev_rect = new_rect, then the blits: the staged
\* actors before self, self, the staged actors after self
Composite(self, rend, new_rect, acc, prev, before, after) ==
    IF acc.err # "" THEN Outcome(self, rend, acc.disp, prev, Raise(acc.err))
    ELSE Outcome(self, rend,
                 BlitAll(BlitOne(BlitAll(acc, before), self, new_rect), after).disp,
                 [prev EXCEPT ![self] = new_rect],
                 RetList(BlitAll(BlitOne(BlitAll(acc, before), self, new_rect),
                                 after).areas))

Staged(self, rend, new_rect, acc) ==
    Composite(self, rend, new_rect, acc, acc.prev, acc.before, acc.after)

\* the branch of _update that repaints, the rendered image being of size rend
Repaint(self, rend, new_rect) ==
    Staged(self, rend, new_rect,
           DamageRects([disp |-> display, prev |-> prev_rect, areas |-> <<>>,
                        before |-> <<>>, after |-> <<>>, err |-> ""],
                       self, AllRects(self, new_rect)))

Render(self, rend) == Repaint(self, rend, GetRect(rend, NewPos(self)))

\* Actor._update(world) of the actor self: what it leaves of the display, of
\* every actor's _prev_rect, of self's rendered image and image flag, and
\* what it returns (None, the list of rectangles) or raises (ValueError).
Update(self) ==
    IF ~NeedsRepaint(self)
    THEN [disp |-> display, prev |-> prev_rect, rendered |-> rendered,
          image |-> image, ret |-> None]
    ELSE Render(self, RotatedSize(image[self], rotation[self]))

\* ------------------------------------------------------------ World._update
RECURSIVE BlitActors(_, _)
BlitActors(surf, list) ==
    IF list = <<>> THEN surf
    ELSE BlitActors(Blit(surf, Head(list), GetRect(rendered[Head(list)], NewPos(Head(list)))),
                    Tail(list))

\* World._update(): the display and the value returned
WorldUpdateMutantNoActors ==
    IF bg_dirty
    THEN [disp |-> Blit(display, Background, SurfaceRect(width, height)),
          ret |-> RetRect(SurfaceRect(width, height))]
    ELSE [disp |-> display, ret |-> None]

WorldUpdate ==
    IF bg_dirty
    THEN [disp |-> BlitActors(Blit(display, Background, SurfaceRect(width, height)),
                              GetObjects(actors, "Actor").list),
          ret |-> RetRect(SurfaceRect(width, height))]
    ELSE [disp |-> display, ret |-> None]

\* ------------------------------------------------------------ construction
\* World(width, height, cell_size): the sizes the model draws from. The window
\* is the largest whole number of cells that fits MaxPixW x MaxPixH pixels
\* (at least one cell high).
CellSizes == {1, 2}

CellsWide(cs) == MaxPixW \div cs

CellsHigh(cs) == IF MaxPixH \div cs = 0 THEN 1 ELSE MaxPixH \div cs

\* the places act() callbacks and the setup put an actor at (cells): the
\* cells of the world and, to its left, column -1
XCells == -1..((width \div cell_size) - 1)

YCells == 0..((height \div cell_size) - 1)

\* the pixel offsets they give it
Offsets == 0..MaxOffset

\* the quarter turns they give it
TurnAngles == {0, 90}

\* the image of an actor of a free (cell_size = 1) world, two pixels wide and
\* one high; Actor() scales the image of a grid world's actor to one cell
ImageSize(cs) == IF cs = 1 THEN [w |-> 2, h |-> 1] ELSE [w |-> cs, h |-> cs]

\* What a program with its world and its actors made has besides them: the
\* world active, no second world, a mouse at rest at the top left, no latch
\* armed, and a blank Image(2, 1).
InitOther ==
    /\ WORLD = 1
    /\ worlds = {1}
    /\ made = ActorIds
    /\ actors2 = <<>>
    /\ mouse = <<0, 0>>
    /\ pressed = <<FALSE, FALSE, FALSE>>
    /\ trigger_on_relief = [a \in ActorIds |-> FALSE]
    /\ canvas = [w |-> 2, h |-> 1, ox |-> 0, oy |-> 0, dirty |-> TRUE]

InitWorld(cs) ==
    /\ cell_size = cs
    /\ width = CellsWide(cs) * cs
    /\ height = CellsHigh(cs) * cs
    /\ bg_dirty = TRUE
    /\ display = NewSurface(width, height)
    /\ screen = NewSurface(width, height)

\* Actor() for every actor object: at (0, 0), unrotated, never drawn
InitActors ==
    /\ x = [a \in ActorIds |-> 0]
    /\ y = [a \in ActorIds |-> 0]
    /\ x_offset = [a \in ActorIds |-> 0]
    /\ y_offset = [a \in ActorIds |-> 0]
    /\ rotation = [a \in ActorIds |-> 0]
    /\ image = [a \in ActorIds |->
          [w |-> ImageSize(cell_size).w, h |-> ImageSize(cell_size).h, dirty |-> TRUE]]
    /\ rendered = [a \in ActorIds |-> ImageSize(cell_size)]
    /\ prev_rect = [a \in ActorIds |-> None]

\* A program that has created a world and its actors and added none yet.
Init ==
    /\ InitWorld(1)
    /\ InitActors
    /\ actors = <<>>
    /\ pc = "setup"
    /\ queue = <<>>
    /\ call = [op |-> "World", arg |-> None]
    /\ result = None
    /\ InitOther

\* ------------------------------------------------- the user's setup calls
Add(objs, slots) ==
    /\ pc = "setup"
    /\ actors' = WorldAdd(actors, objs, slots)
    /\ call' = [op |-> "World.add", arg |-> objs]
    /\ result' = None
    /\ UNCHANGED <<cell_size, width, height, bg_dirty, display, screen>>
    /\ UNCHANGED <<actorVars, loopVars>>
    /\ UNCHANGED <<globalVars, mouseVars, canvas>>

Remove(objs) ==
    /\ pc = "setup"
    /\ actors' = WorldRemove(actors, objs)
    /\ call' = [op |-> "World.remove", arg |-> objs]
    /\ result' = None
    /\ UNCHANGED <<cell_size, width, height, bg_dirty, display, screen>>
    /\ UNCHANGED <<actorVars, loopVars>>
    /\ UNCHANGED <<globalVars, mouseVars, canvas>>

PaintOrder(types) ==
    /\ pc = "setup"
    /\ actors' = SetPaintOrder(actors, types)
    /\ call' = [op |-> "World.set_paint_order", arg |-> types]
    /\ result' = None
    /\ UNCHANGED <<cell_size, width, height, bg_dirty, display, screen>>
    /\ UNCHANGED <<actorVars, loopVars>>
    /\ UNCHANGED <<globalVars, mouseVars, canvas>>

Objects(cls) ==
    /\ pc = "setup"
    /\ call' = [op |-> "World.get_objects", arg |-> cls]
    /\ result' = GetObjects(actors, cls)
    /\ UNCHANGED <<worldVars, actorVars, loopVars>>
    /\ UNCHANGED <<globalVars, mouseVars, canvas>>

\* actor.rotation = angle
Rotate(a, angle) ==
    /\ pc = "setup"
    /\ LET r == SetRotation(rotation[a], image[a].dirty, angle)
       IN /\ rotation' = [rotation EXCEPT ![a] = r.rotation]
          /\ image' = [image EXCEPT ![a].dirty = r.dirty]
    /\ call' = [op |-> "Actor.rotation", arg |-> angle]
    /\ result' = None
    /\ UNCHANGED <<worldVars, loopVars>>
    /\ UNCHANGED <<x, y, x_offset, y_offset, rendered, prev_rect>>
    /\ UNCHANGED <<globalVars, mouseVars, canvas>>

\* ----------------------------------------------------- the loop of start()
\* start(): the check of WORLD, the clock, and into `while running`
Start ==
    /\ pc = "setup"
    /\ pc' = IF WORLD = NoWorld THEN pc ELSE "loop"
    /\ call' = [op |-> "start", arg |-> None]
    /\ result' = IF WORLD = NoWorld THEN Raise("Exception") ELSE None
    /\ UNCHANGED <<worldVars, actorVars, queue>>
    /\ UNCHANGED <<globalVars, mouseVars, canvas>>

\* The head of an iteration: CLOCK.tick, the events, then
\* update = WORLD._update() and pygame.display.update(update) if not None.
ApplyWorldUpdate(u) ==
    /\ display' = u.disp
    /\ screen' = IF u.ret = None THEN screen
                 ELSE Present(screen, u.disp, <<u.ret.rect>>)
    /\ result' = u.ret

Tick ==
    /\ pc \in {"loop", "frame_end"}
    /\ ApplyWorldUpdate(WorldUpdate)
    /\ bg_dirty' = FALSE
    /\ pc' = "world_act"
    /\ call' = [op |-> "World._update", arg |-> None]
    /\ UNCHANGED <<actors, cell_size, width, height, actorVars, queue>>
    /\ UNCHANGED <<globalVars, mouseVars, canvas>>

\* WORLD.act() (the default: pass), then `for actor in WORLD.get_objects()`
\* takes its list.
WorldAct ==
    /\ pc = "world_act"
    /\ queue' = GetObjects(actors, "Actor").list
    /\ pc' = IF queue' = <<>> THEN "frame_end" ELSE "actor_act"
    /\ call' = [op |-> "World.act", arg |-> None]
    /\ result' = None
    /\ UNCHANGED <<worldVars, actorVars>>
    /\ UNCHANGED <<globalVars, mouseVars, canvas>>

\* actor.act() of the actor the for loop is at. An act() callback of the
\* frame specifications changes nothing, or its own actor's position,
\* rotation or pixel offset.
ActPass ==
    /\ pc = "actor_act"
    /\ pc' = "actor_update"
    /\ call' = [op |-> "Actor.act", arg |-> Head(queue)]
    /\ result' = None
    /\ UNCHANGED <<worldVars, actorVars, queue>>
    /\ UNCHANGED <<globalVars, mouseVars, canvas>>

\* act() calls self.set_location(nx, ny)
ActMove(nx, ny) ==
    /\ pc = "actor_act"
    /\ <<nx, ny>> # <<x[Head(queue)], y[Head(queue)]>>
    /\ x' = [x EXCEPT ![Head(queue)] = nx]
    /\ y' = [y EXCEPT ![Head(queue)] = ny]
    /\ pc' = "actor_update"
    /\ call' = [op |-> "Actor.act", arg |-> Head(queue)]
    /\ result' = None
    /\ UNCHANGED <<worldVars, queue>>
    /\ UNCHANGED <<x_offset, y_offset, rotation, image, rendered, prev_rect>>
    /\ UNCHANGED <<globalVars, mouseVars, canvas>>

\* act() assigns self.rotation = angle
ActTurn(angle) ==
    /\ pc = "actor_act"
    /\ LET a == Head(queue)
           r == SetRotation(rotation[a], image[a].dirty, angle)
       IN /\ rotation' = [rotation EXCEPT ![a] = r.rotation]
          /\ image' = [image EXCEPT ![a].dirty = r.dirty]
          /\ rotation' # rotation
    /\ pc' = "actor_update"
    /\ call' = [op |-> "Actor.act", arg |-> Head(queue)]
    /\ result' = None
    /\ UNCHANGED <<worldVars, queue>>
    /\ UNCHANGED <<x, y, x_offset, y_offset, rendered, prev_rect>>
    /\ UNCHANGED <<globalVars, mouseVars, canvas>>

\* act() assigns self.x_offset = ox
ActOffset(ox) ==
    /\ pc = "actor_act"
    /\ ox # x_offset[Head(queue)]
    /\ x_offset' = [x_offset EXCEPT ![Head(queue)] = ox]
    /\ y_offset' = y_offset
    /\ pc' = "actor_update"
    /\ call' = [op |-> "Actor.act", arg |-> Head(queue)]
    /\ result' = None
    /\ UNCHANGED <<worldVars, queue>>
    /\ UNCHANGED <<x, y, rotation, image, rendered, prev_rect>>
    /\ UNCHANGED <<globalVars, mouseVars, canvas>>

\* update = actor._update(WORLD) and pygame.display.update(update) if not
\* None; an exception leaves start() and ends the program.
ApplyUpdate(self, u) ==
    /\ display' = u.disp
    /\ prev_rect' = u.prev
    /\ rendered' = u.rendered
    /\ image' = u.image
    /\ result' = u.ret
    /\ screen' = IF u.ret.kind # "list" THEN screen
                 ELSE Present(screen, u.disp, u.ret.list)
    /\ pc' = IF u.ret.kind = "raise" THEN "crashed"
             ELSE IF Tail(queue) = <<>> THEN "frame_end"
             ELSE "actor_act"

ActorUpdate ==
    /\ pc = "actor_update"
    /\ ApplyUpdate(Head(queue), Update(Head(queue)))
    /\ queue' = Tail(queue)
    /\ call' = [op |-> "Actor._update", arg |-> Head(queue)]
    /\ UNCHANGED <<actors, cell_size, width, height, bg_dirty>>
    /\ UNCHANGED <<x, y, x_offset, y_offset, rotation>>
    /\ UNCHANGED <<globalVars, mouseVars, canvas>>

\* ----------------------------------------------------------- specifications
\* The registry: add, remove, set_paint_order and get_objects on one world.
NextRegistry ==
    \/ \E n \in 1..MaxArgs : \E objs \in [1..n -> ActorIds] :
          \E slots \in [1..n -> BOOLEAN] : Add(objs, slots)
    \/ \E objs \in SeqsOf(ActorIds, 1, MaxArgs) : Remove(objs)
    \/ \E types \in SeqsOf(ActorClasses, 0, MaxTypes) : PaintOrder(types)
    \/ \E cls \in AllClasses : Objects(cls)

SpecRegistry == Init /\ [][NextRegistry]_vars

\* The registry without set_paint_order.
NextAddRemove ==
    \/ \E n \in 1..MaxArgs : \E objs \in [1..n -> ActorIds] :
          \E slots \in [1..n -> BOOLEAN] : Add(objs, slots)
    \/ \E objs \in SeqsOf(ActorIds, 1, MaxArgs) : Remove(objs)

SpecAddRemove == Init /\ [][NextAddRemove]_vars

\* The rotation setter of one actor, whose image a frame may have drawn
\* (flag clear) or not (flag set).
Angles == {10 * k : k \in (-36 * MaxAngle)..(36 * MaxAngle)}

InitRotation ==
    /\ InitWorld(1)
    /\ x = [a \in ActorIds |-> 0]
    /\ y = [a \in ActorIds |-> 0]
    /\ x_offset = [a \in ActorIds |-> 0]
    /\ y_offset = [a \in ActorIds |-> 0]
    /\ rotation = [a \in ActorIds |-> 0]
    /\ \E d \in BOOLEAN :
          image = [a \in ActorIds |->
              [w |-> ImageSize(1).w, h |-> ImageSize(1).h, dirty |-> d]]
    /\ rendered = [a \in ActorIds |-> ImageSize(1)]
    /\ prev_rect = [a \in ActorIds |-> None]
    /\ actors = <<>>
    /\ pc = "setup"
    /\ queue = <<>>
    /\ call = [op |-> "World", arg |-> None]
    /\ result = None
    /\ InitOther

NextRotation == \E angle \in Angles : Rotate(1, angle)

SpecRotation == InitRotation /\ [][NextRotation]_vars

\* The frame loop over a world that the setup has filled: some of the first
\* FrameActors actors, added in any order, each placed somewhere, given a
\* quarter turn or none, none of them drawn yet.
InitFrame ==
    /\ \E cs \in CellSizes : InitWorld(cs)
    /\ \E objs \in SeqsOf(1..FrameActors, 1, FrameActors) :
          /\ \A i, j \in 1..Len(objs) : i # j => objs[i] # objs[j]
          /\ actors = WorldAdd(<<>>, objs, [i \in 1..Len(objs) |-> FALSE])
          /\ \E px \in [Range(objs) -> XCells], py \in [Range(objs) -> YCells] :
                /\ x = [a \in ActorIds |-> IF a \in Range(objs) THEN px[a] ELSE 0]
                /\ y = [a \in ActorIds |-> IF a \in Range(objs) THEN py[a] ELSE 0]
    /\ x_offset = [a \in ActorIds |-> 0]
    /\ y_offset = [a \in ActorIds |-> 0]
    /\ rotation = [a \in ActorIds |-> 0]
    /\ image = [a \in ActorIds |->
          [w |-> ImageSize(cell_size).w, h |-> ImageSize(cell_size).h, dirty |-> TRUE]]
    /\ rendered = [a \in ActorIds |-> ImageSize(cell_size)]
    /\ prev_rect = [a \in ActorIds |-> None]
    /\ pc = "setup"
    /\ queue = <<>>
    /\ call = [op |-> "World", arg |-> None]
    /\ result = None
    /\ InitOther

NextFrame ==
    \/ Start
    \/ Tick
    \/ WorldAct
    \/ ActPass
    \/ \E nx \in XCells, ny \in YCells : ActMove(nx, ny)
    \/ \E angle \in TurnAngles : ActTurn(angle)
    \/ \E ox \in Offsets : ActOffset(ox)
    \/ ActorUpdate

SpecFrame == InitFrame /\ [][NextFrame]_vars

\* ---------------------------------------------------------------- images
\* The operations of Image that draw on the surface: each ends with
\* self._requires_update = True.
DrawOps == {"fill", "draw_line", "draw_rect", "draw_circle", "draw_polygon",
            "draw_image", "draw_text"}

Drawn(img) == [img EXCEPT !.dirty = TRUE]

\* Image.scale(width, height)
Scaled(img, w, h) == [img EXCEPT !.w = w, !.h = h, !.dirty = TRUE]

\* Image.scale_by(factor), for a whole factor
ScaledBy(img, factor) == Scaled(img, img.w * factor, img.h * factor)

\* Image.rotate(degrees), for quarter turns
Rotated(img, degrees) ==
    Scaled(img, RotatedSize(img, degrees).w, RotatedSize(img, degrees).h)

\* the widths, heights, factors and angles the program passes to them
ScaleWidths == {1, 2}

ScaleHeights == {1}

ScaleFactors == {1}

RotateAngles == {180}

\* The calls on an image that change it, each with the image it leaves:
\* the drawing operations, scale, scale_by, rotate and the setters of width
\* and height.
Mutations(img) ==
    {[op |-> o, img |-> Drawn(img)] : o \in DrawOps}
    \cup {[op |-> "scale", img |-> Scaled(img, w, h)] :
             w \in ScaleWidths, h \in ScaleHeights}
    \cup {[op |-> "scale_by", img |-> ScaledBy(img, f)] : f \in ScaleFactors}
    \cup {[op |-> "rotate", img |-> Rotated(img, d)] : d \in RotateAngles}
    \cup {[op |-> "width", img |-> Scaled(img, w, img.h)] : w \in ScaleWidths}
    \cup {[op |-> "height", img |-> Scaled(img, img.w, h)] : h \in ScaleHeights}

\* act() calls one of them on self.image
ActDraw(m) ==
    /\ pc = "actor_act"
    /\ image' = [image EXCEPT ![Head(queue)] = m.img]
    /\ pc' = "actor_update"
    /\ call' = [op |-> "Actor.act", arg |-> Head(queue)]
    /\ result' = None
    /\ UNCHANGED <<worldVars, queue>>
    /\ UNCHANGED <<x, y, x_offset, y_offset, rotation, rendered, prev_rect>>
    /\ UNCHANGED <<globalVars, mouseVars, canvas>>

\* act() assigns self.image = Image(w, h): the setter marks the image and
\* renders it
ActSetImage(w, h) ==
    /\ pc = "actor_act"
    /\ image' = [image EXCEPT ![Head(queue)] = [w |-> w, h |-> h, dirty |-> TRUE]]
    /\ rendered' = [rendered EXCEPT ![Head(queue)] =
                       RotatedSize([w |-> w, h |-> h], rotation[Head(queue)])]
    /\ pc' = "actor_update"
    /\ call' = [op |-> "Actor.act", arg |-> Head(queue)]
    /\ result' = None
    /\ UNCHANGED <<worldVars, queue>>
    /\ UNCHANGED <<x, y, x_offset, y_offset, rotation, prev_rect>>
    /\ UNCHANGED <<globalVars, mouseVars, canvas>>

\* A World.act() that draws on the background (self.bg.fill(...)), then
\* `for actor in WORLD.get_objects()` takes its list.
WorldActFill ==
    /\ pc = "world_act"
    /\ bg_dirty' = TRUE
    /\ queue' = GetObjects(actors, "Actor").list
    /\ pc' = IF queue' = <<>> THEN "frame_end" ELSE "actor_act"
    /\ call' = [op |-> "World.act", arg |-> None]
    /\ result' = None
    /\ UNCHANGED <<actors, cell_size, width, height, display, screen>>
    /\ UNCHANGED actorVars
    /\ UNCHANGED <<globalVars, mouseVars, canvas>>

\* The frame loop of a free world whose callbacks also draw: World.act() may
\* draw on the background, an act() may move its actor, give it a pixel
\* offset, change its image or replace it.
InitPaint == InitFrame /\ cell_size = 1

NextPaint ==
    \/ Start
    \/ Tick
    \/ WorldAct
    \/ WorldActFill
    \/ ActPass
    \/ \E nx \in XCells, ny \in YCells : ActMove(nx, ny)
    \/ \E ox \in Offsets : ActOffset(ox)
    \/ pc = "actor_act" /\ \E m \in Mutations(image[Head(queue)]) : ActDraw(m)
    \/ \E w \in ScaleWidths, h \in ScaleHeights : ActSetImage(w, h)
    \/ ActorUpdate

SpecPaint == InitPaint /\ [][NextPaint]_vars

\* --------------------------------------------------------------- WORLD
RetWorld(w) == [kind |-> "world", world |-> w]

RetColor(c) == [kind |-> "color", color |-> c]

\* Actor.get_world(), W being the module's WORLD
GetWorldMutantFirst(W) == RetWorld(1)

GetWorld(W) == IF W = NoWorld THEN Raise("Exception") ELSE RetWorld(W)

\* World(width, height, cell_size, auto_init) for the World object w, built
\* with the arguments of the first: with auto_init it opens the window and
\* becomes the active world.
NewWorld(w, auto_init) ==
    /\ pc = "setup"
    /\ w \notin worlds
    /\ worlds' = worlds \cup {w}
    /\ WORLD' = IF auto_init THEN w ELSE WORLD
    /\ display' = IF auto_init THEN NewSurface(width, height) ELSE display
    /\ screen' = IF auto_init THEN NewSurface(width, height) ELSE screen
    /\ call' = [op |-> "World", arg |-> auto_init]
    /\ result' = None
    /\ UNCHANGED <<actors, cell_size, width, height, bg_dirty>>
    /\ UNCHANGED <<actorVars, loopVars, made, actors2, mouseVars, canvas>>

\* set_world(new_world)
SetWorld(w) ==
    /\ pc = "setup"
    /\ w \in worlds
    /\ WORLD' = w
    /\ display' = NewSurface(width, height)
    /\ screen' = NewSurface(width, height)
    /\ call' = [op |-> "set_world", arg |-> w]
    /\ result' = None
    /\ UNCHANGED <<actors, cell_size, width, height, bg_dirty>>
    /\ UNCHANGED <<actorVars, loopVars, worlds, made, actors2, mouseVars, canvas>>

\* Actor() for the Actor object a: __init__ asks self.get_world() for the
\* cell size, and its exception leaves no actor
NewActor(a) ==
    /\ pc = "setup"
    /\ a \notin made
    /\ made' = IF GetWorld(WORLD).kind = "raise" THEN made ELSE made \cup {a}
    /\ call' = [op |-> "Actor", arg |-> a]
    /\ result' = IF GetWorld(WORLD).kind = "raise" THEN GetWorld(WORLD) ELSE None
    /\ UNCHANGED <<worldVars, actorVars, loopVars>>
    /\ UNCHANGED <<WORLD, worlds, actors2, mouseVars, canvas>>

\* a.get_world()
GetWorldCall(a) ==
    /\ pc = "setup"
    /\ a \in made
    /\ call' = [op |-> "Actor.get_world", arg |-> a]
    /\ result' = GetWorld(WORLD)
    /\ UNCHANGED <<worldVars, actorVars, loopVars, globalVars, mouseVars, canvas>>

\* get_color_at(x, y) for a pixel p of the window
GetColorAt(p) ==
    /\ pc = "setup"
    /\ call' = [op |-> "get_color_at", arg |-> p]
    /\ result' = IF WORLD # NoWorld THEN RetColor(display[p]) ELSE Raise("Exception")
    /\ UNCHANGED <<worldVars, actorVars, loopVars, globalVars, mouseVars, canvas>>

\* add and remove of the second World object
AddOther(objs, slots) ==
    /\ pc = "setup"
    /\ 2 \in worlds
    /\ Range(objs) \subseteq made
    /\ actors2' = WorldAdd(actors2, objs, slots)
    /\ call' = [op |-> "World.add", arg |-> objs]
    /\ result' = None
    /\ UNCHANGED <<worldVars, actorVars, loopVars>>
    /\ UNCHANGED <<WORLD, worlds, made, mouseVars, canvas>>

RemoveOther(objs) ==
    /\ pc = "setup"
    /\ 2 \in worlds
    /\ Range(objs) \subseteq made
    /\ actors2' = WorldRemove(actors2, objs)
    /\ call' = [op |-> "World.remove", arg |-> objs]
    /\ result' = None
    /\ UNCHANGED <<worldVars, actorVars, loopVars>>
    /\ UNCHANGED <<WORLD, worlds, made, mouseVars, canvas>>

\* A program from its first line: no world, no actor.
InitNoWorld ==
    /\ InitWorld(1)
    /\ InitActors
    /\ actors = <<>>
    /\ pc = "setup"
    /\ queue = <<>>
    /\ call = [op |-> "import", arg |-> None]
    /\ result = None
    /\ WORLD = NoWorld
    /\ worlds = {}
    /\ made = {}
    /\ actors2 = <<>>
    /\ mouse = <<0, 0>>
    /\ pressed = <<FALSE, FALSE, FALSE>>
    /\ trigger_on_relief = [a \in ActorIds |-> FALSE]
    /\ canvas = [w |-> 2, h |-> 1, ox |-> 0, oy |-> 0, dirty |-> TRUE]

\* Worlds are created, with auto_init or without, and made active; actors
\* are constructed, and added to and removed from either world.
NextWorlds ==
    \/ \E w \in WorldIds, auto_init \in BOOLEAN : NewWorld(w, auto_init)
    \/ \E w \in WorldIds : SetWorld(w)
    \/ \E a \in 1..FrameActors : NewActor(a)
    \/ \E a \in 1..FrameActors : GetWorldCall(a)
    \/ \E p \in DOMAIN display : GetColorAt(p)
    \/ Start
    \/ \E a \in made, slot \in BOOLEAN : 1 \in worlds /\ Add(<<a>>, <<slot>>)
    \/ \E a \in made : 1 \in worlds /\ Remove(<<a>>)
    \/ \E a \in made, slot \in BOOLEAN : AddOther(<<a>>, <<slot>>)
    \/ \E a \in made : RemoveOther(<<a>>)

SpecWorlds == InitNoWorld /\ [][NextWorlds]_vars

\* ------------------------------------------------- Image of src/main.py
\* An image on its own is the variable canvas: its size, and where the
\* pixel (0, 0) of the image as it was constructed now sits on the surface.
MaxCoord == 2

MaxCoordY == 1

MaxPoints == 2

MaxCanvas == 4

Points == (-MaxCoord..MaxCoord) \X (-MaxCoordY..MaxCoordY)

Abs(n) == IF n < 0 THEN -n ELSE n

\* one turn of `for x, y in point` on (needed_width, needed_height,
\* negative_width, negative_height)
ExpandStep(acc, pt) ==
    [nw |-> IF pt[1] > acc.nw THEN pt[1] ELSE acc.nw,
     negw |-> IF pt[1] > acc.nw THEN acc.negw
              ELSE IF pt[1] < acc.negw THEN Abs(pt[1]) ELSE acc.negw,
     nh |-> IF pt[2] > acc.nh THEN pt[2] ELSE acc.nh,
     negh |-> IF pt[2] > acc.nh THEN acc.negh
              ELSE IF pt[2] < acc.negh THEN Abs(pt[2]) ELSE acc.negh]

RECURSIVE Needed(_, _)
Needed(acc, points) ==
    IF points = <<>> THEN acc
    ELSE Needed(ExpandStep(acc, Head(points)), Tail(points))

\* the new surface, the old one blitted at (negative_width, negative_height)
Expanded(img, n) ==
    IF n.nw > img.w \/ n.nh > img.h \/ ~(n.negw = 0 /\ n.negh = 0)
    THEN [img EXCEPT !.w = n.nw + n.negw, !.h = n.nh + n.negh,
                     !.ox = img.ox + n.negw, !.oy = img.oy + n.negh]
    ELSE img

\* Image.expand_to(*point)
ExpandTo(img, points) ==
    Expanded(img, Needed([nw |-> img.w, nh |-> img.h, negw |-> 0, negh |-> 0],
                         points))

\* Image.from_path(path): a path is what the file system holds there and the
\* suffix of its name after the dot
PathKinds == {"absent", "file", "dir"}

Suffixes == {"jpg", "jpeg", "png", "gif", "PNG", "txt", ""}

Supported == {"jpg", "jpeg", "png", "gif"}

Paths == [kind : PathKinds, suffix : Suffixes]

RetImage(w, h) == [kind |-> "image", w |-> w, h |-> h]

\* src/pyfoot/main.py
FromPath(path) ==
    IF path.kind # "absent"
    THEN IF path.kind = "file" /\ path.suffix \in Supported THEN RetImage(2, 1)
         ELSE IF path.kind = "file" THEN Raise("NotImplementedError")
         ELSE Raise("FileNotFoundError")
    ELSE Raise("FileNotFoundError")

\* src/main.py
FromPathOld(path) ==
    IF path.kind # "absent"
    THEN IF path.kind = "file" /\ path.suffix \in Supported THEN RetImage(2, 1)
         ELSE IF path.kind = "file" THEN Raise("ResourceWarning")
         ELSE Raise("ResourceWarning")
    ELSE Raise("ResourceWarning")

\* img = Image(w, h)
ImageNew(w, h) ==
    /\ canvas' = [w |-> w, h |-> h, ox |-> 0, oy |-> 0, dirty |-> TRUE]
    /\ call' = [op |-> "Image", arg |-> <<w, h>>]
    /\ result' = None
    /\ UNCHANGED <<worldVars, actorVars, loopVars, globalVars, mouseVars>>

\* img.expand_to(*points)
ImageExpandTo(points) ==
    /\ canvas.w <= MaxCanvas
    /\ canvas.h <= MaxCanvas
    /\ canvas' = ExpandTo(canvas, points)
    /\ call' = [op |-> "Image.expand_to", arg |-> points]
    /\ result' = None
    /\ UNCHANGED <<worldVars, actorVars, loopVars, globalVars, mouseVars>>

\* img = Image.from_path(path), of either file; img stays what it was when
\* the call raises
ImageFromPath(path) ==
    /\ canvas' = IF FromPath(path).kind = "image"
                 THEN [w |-> FromPath(path).w, h |-> FromPath(path).h,
                       ox |-> 0, oy |-> 0, dirty |-> TRUE]
                 ELSE canvas
    /\ call' = [op |-> "Image.from_path", arg |-> path]
    /\ result' = FromPath(path)
    /\ UNCHANGED <<worldVars, actorVars, loopVars, globalVars, mouseVars>>

ImageFromPathOld(path) ==
    /\ canvas' = IF FromPathOld(path).kind = "image"
                 THEN [w |-> FromPathOld(path).w, h |-> FromPathOld(path).h,
                       ox |-> 0, oy |-> 0, dirty |-> TRUE]
                 ELSE canvas
    /\ call' = [op |-> "main.Image.from_path", arg |-> path]
    /\ result' = FromPathOld(path)
    /\ UNCHANGED <<worldVars, actorVars, loopVars, globalVars, mouseVars>>

NextImage ==
    \/ \E w \in 1..2, h \in 1..2 : ImageNew(w, h)
    \/ \E points \in SeqsOf(Points, 1, MaxPoints) : ImageExpandTo(points)
    \/ \E path \in Paths : ImageFromPath(path)
    \/ \E path \in Paths : ImageFromPathOld(path)

SpecImage == Init /\ [][NextImage]_vars

\* ------------------------------------------------------------- the mouse
RetBool(b) == [kind |-> "bool", value |-> b]

\* clicked() without an argument: mouse_button is None
NoButton == "None"

ButtonNames == {"left", "right", "middle"}

\* buttons = {"left": 0, "right": 1, "middle": 2}, an index into
\* pygame.mouse.get_pressed() (counted from 1 here)
ButtonIndex(mouse_button) ==
    CASE mouse_button = "left"   -> 1
      [] mouse_button = "right"  -> 2
      [] mouse_button = "middle" -> 3

\* any(pygame.mouse.get_pressed())
AnyPressed(prs) == \E i \in 1..Len(prs) : prs[i]

\* the test of the first if of either branch of clicked
Down(prs, mouse_button) ==
    IF mouse_button = NoButton THEN AnyPressed(prs)
    ELSE prs[ButtonIndex(mouse_button)]

\* Actor.mouse_over() with the mouse at pos
MouseOver(a, pos) == InRect(pos, GetRect(image[a], CellPos(a)))

\* Actor.clicked(mouse_button) of an actor whose trigger_on_relief is latch,
\* the mouse being over it or not and the buttons being prs: the new latch
\* and the value returned
ClickedMutantKeepLatch(latch, over, prs, mouse_button) ==
    IF over /\ Down(prs, mouse_button) THEN [latch |-> TRUE, ret |-> FALSE]
    ELSE IF latch /\ over THEN [latch |-> TRUE, ret |-> TRUE]
    ELSE [latch |-> latch, ret |-> FALSE]

Clicked(latch, over, prs, mouse_button) ==
    IF mouse_button = NoButton
    THEN IF over /\ AnyPressed(prs) THEN [latch |-> TRUE, ret |-> FALSE]
         ELSE IF latch /\ over THEN [latch |-> FALSE, ret |-> TRUE]
         ELSE [latch |-> latch, ret |-> FALSE]
    ELSE IF over /\ prs[ButtonIndex(mouse_button)] THEN [latch |-> TRUE, ret |-> FALSE]
         ELSE IF latch /\ over THEN [latch |-> FALSE, ret |-> TRUE]
         ELSE [latch |-> FALSE, ret |-> FALSE]

\* One frame of a program whose act() polls clicked(mouse_button) of the
\* actor a once per frame: the mouse is where the user has moved it, the
\* buttons are as the user holds them, and clicked runs.
Poll(a, pos, prs, mouse_button) ==
    /\ call.op = "Actor.clicked" => call.arg = mouse_button
    /\ mouse' = pos
    /\ pressed' = prs
    /\ trigger_on_relief' =
          [trigger_on_relief EXCEPT ![a] =
              Clicked(trigger_on_relief[a], MouseOver(a, pos), prs, mouse_button).latch]
    /\ call' = [op |-> "Actor.clicked", arg |-> mouse_button]
    /\ result' = RetBool(Clicked(trigger_on_relief[a], MouseOver(a, pos), prs,
                                 mouse_button).ret)
    /\ UNCHANGED <<worldVars, actorVars, loopVars, globalVars, canvas>>

\* The mouse and the actor 1 of a free world, which is at (0, 0): clicked is
\* polled every frame, always with the same argument.
NextClick ==
    \E pos \in DOMAIN display, prs \in [1..3 -> BOOLEAN],
       mouse_button \in ButtonNames \cup {NoButton} :
          Poll(1, pos, prs, mouse_button)

SpecClick == Init /\ [][NextClick]_vars

\* ------------------------------------------------------------ intersections
RetActor(a) == [kind |-> "actor", actor |-> a]

\* `for actor in self.get_world().get_objects(other)` without self
OthersOf(self, cls) ==
    SelectSeq(GetObjects(actors, cls).list, LAMBDA a : a # self)

\* self's rectangle collides with actor's, both taken at (x * cell_size,
\* y * cell_size) with the size of the rendered image
Touches(self, a) == CollideRect(OverlapRect(self), OverlapRect(a))

\* Actor.is_touching(other) for a class: the loop returns in its first turn
\* that is not self
IsTouching(self, cls) ==
    IF OthersOf(self, cls) = <<>> THEN FALSE
    ELSE Touches(self, OthersOf(self, cls)[1])

\* Actor.get_intersecting(other)
GetIntersecting(self, cls) ==
    IF SelectSeq(OthersOf(self, cls), LAMBDA a : Touches(self, a)) = <<>> THEN None
    ELSE RetActor(SelectSeq(OthersOf(self, cls), LAMBDA a : Touches(self, a))[1])

\* the actors of the intersection specification
TouchActors == 1..3

\* a.set_location(nx, ny) before start()
Place(a, nx, ny) ==
    /\ pc = "setup"
    /\ x' = [x EXCEPT ![a] = nx]
    /\ y' = [y EXCEPT ![a] = ny]
    /\ call' = [op |-> "Actor.set_location", arg |-> <<a, nx, ny>>]
    /\ result' = None
    /\ UNCHANGED <<worldVars, loopVars, globalVars, mouseVars, canvas>>
    /\ UNCHANGED <<x_offset, y_offset, rotation, image, rendered, prev_rect>>

\* a.is_touching(cls)
TouchingCall(a, cls) ==
    /\ pc = "setup"
    /\ call' = [op |-> "Actor.is_touching", arg |-> <<a, cls>>]
    /\ result' = RetBool(IsTouching(a, cls))
    /\ UNCHANGED <<worldVars, actorVars, loopVars, globalVars, mouseVars, canvas>>

\* a.get_intersecting(cls)
IntersectingCall(a, cls) ==
    /\ pc = "setup"
    /\ call' = [op |-> "Actor.get_intersecting", arg |-> <<a, cls>>]
    /\ result' = GetIntersecting(a, cls)
    /\ UNCHANGED <<worldVars, actorVars, loopVars, globalVars, mouseVars, canvas>>

\* Three actors in a world, whichever was added first, moved about and asked
\* what they touch.
InitTouch ==
    /\ InitWorld(1)
    /\ InitActors
    /\ \E objs \in SeqsOf(TouchActors, 3, 3) :
          /\ Range(objs) = TouchActors
          /\ actors = WorldAdd(<<>>, objs, [i \in 1..3 |-> FALSE])
    /\ pc = "setup"
    /\ queue = <<>>
    /\ call = [op |-> "World.add", arg |-> None]
    /\ result = None
    /\ InitOther

NextTouch ==
    \/ \E a \in TouchActors, nx \in XCells, ny \in YCells : Place(a, nx, ny)
    \/ \E a \in TouchActors, cls \in ActorClasses \cup {"Actor"} : TouchingCall(a, cls)
    \/ \E a \in TouchActors, cls \in ActorClasses \cup {"Actor"} : IntersectingCall(a, cls)

SpecTouch == InitTouch /\ [][NextTouch]_vars

\* ------------------------------------------------------------- a grid world
\* the cell size of the grid world: World(1, 1, cell_size=3)
GridCellSize == 3

\* act() calls self.realign()
ActRealign ==
    /\ pc = "actor_act"
    /\ x_offset' = IF cell_size # 1
                   THEN [x_offset EXCEPT ![Head(queue)] =
                            (cell_size - image[Head(queue)].w) \div 2]
                   ELSE x_offset
    /\ y_offset' = IF cell_size # 1
                   THEN [y_offset EXCEPT ![Head(queue)] =
                            (cell_size - image[Head(queue)].h) \div 2]
                   ELSE y_offset
    /\ pc' = "actor_update"
    /\ call' = [op |-> "Actor.act", arg |-> Head(queue)]
    /\ result' = None
    /\ UNCHANGED <<worldVars, queue>>
    /\ UNCHANGED <<x, y, rotation, image, rendered, prev_rect>>
    /\ UNCHANGED <<globalVars, mouseVars, canvas>>

\* A grid world of cells larger than a pixel, with some of the first
\* FrameActors actors in it, their images scaled to the cell by Actor().
InitGrid ==
    /\ InitWorld(GridCellSize)
    /\ InitActors
    /\ \E objs \in SeqsOf(1..FrameActors, 1, FrameActors) :
          /\ \A i, j \in 1..Len(objs) : i # j => objs[i] # objs[j]
          /\ actors = WorldAdd(<<>>, objs, [i \in 1..Len(objs) |-> FALSE])
    /\ pc = "setup"
    /\ queue = <<>>
    /\ call = [op |-> "World", arg |-> None]
    /\ result = None
    /\ InitOther

\* Its frame loop: an act() may move its actor, change its image, or
\* realign it to the centre of its cell.
NextGrid ==
    \/ Start
    \/ Tick
    \/ WorldAct
    \/ ActPass
    \/ \E nx \in XCells, ny \in YCells : ActMove(nx, ny)
    \/ pc = "actor_act" /\ \E m \in Mutations(image[Head(queue)]) : ActDraw(m)
    \/ ActRealign
    \/ ActorUpdate

SpecGrid == InitGrid /\ [][NextGrid]_vars

\* ------------------------------------------------------ removal in the loop
\* act() calls self.get_world().remove(b), b being any actor of the world,
\* the acting one too
ActRemove(b) ==
    /\ pc = "actor_act"
    /\ b \in Range(GetObjects(actors, "Actor").list)
    /\ actors' = WorldRemove(actors, <<b>>)
    /\ pc' = "actor_update"
    /\ call' = [op |-> "Actor.act", arg |-> Head(queue)]
    /\ result' = None
    /\ UNCHANGED <<cell_size, width, height, bg_dirty, display, screen>>
    /\ UNCHANGED <<actorVars, queue, globalVars, mouseVars, canvas>>

\* Three actors added to a world of pixels, each placed somewhere in it.
InitRemove ==
    /\ InitWorld(1)
    /\ actors = WorldAdd(<<>>, <<1, 2, 3>>, <<FALSE, FALSE, FALSE>>)
    /\ \E px \in [TouchActors -> XCells] :
          x = [a \in ActorIds |-> IF a \in TouchActors THEN px[a] ELSE 0]
    /\ y = [a \in ActorIds |-> 0]
    /\ x_offset = [a \in ActorIds |-> 0]
    /\ y_offset = [a \in ActorIds |-> 0]
    /\ rotation = [a \in ActorIds |-> 0]
    /\ image = [a \in ActorIds |->
          [w |-> ImageSize(cell_size).w, h |-> ImageSize(cell_size).h, dirty |-> TRUE]]
    /\ rendered = [a \in ActorIds |-> ImageSize(cell_size)]
    /\ prev_rect = [a \in ActorIds |-> None]
    /\ pc = "setup"
    /\ queue = <<>>
    /\ call = [op |-> "World.add", arg |-> None]
    /\ result = None
    /\ InitOther

\* The frame loop of a program whose act() callbacks do nothing or remove
\* an actor from the world; no actor moves, the background stays as it is.
NextRemove ==
    \/ Start
    \/ Tick
    \/ WorldAct
    \/ ActPass
    \/ \E b \in TouchActors : ActRemove(b)
    \/ ActorUpdate

SpecRemove == InitRemove /\ [][NextRemove]_vars

\* `while running` goes on: a finished iteration is followed by the next,
\* and every iteration is finished unless a call of it raises
SpecRemoveLive ==
    /\ SpecRemove
    /\ WF_vars(Tick)
    /\ []<>(pc \in {"frame_end", "crashed"})

\* ------------------------------------------------- clicked, with and without
\* where pygame.mouse.get_pressed() reports a physical button: (left,
\* middle, right), counted from 1 here
PhysicalIndex(mouse_button) ==
    CASE mouse_button = "left"   -> 1
      [] mouse_button = "middle" -> 2
      [] mouse_button = "right"  -> 3

\* the buttons as the user holds them when only mouse_button is ever used
OnlyButton(mouse_button, down) ==
    [i \in 1..3 |-> down /\ i = PhysicalIndex(mouse_button)]

RetPair(noarg, named) == [kind |-> "pair", noarg |-> noarg, named |-> named]

\* One frame of a program with two actors in the same place, a and b, whose
\* act() poll a.clicked() and b.clicked(mouse_button): the mouse is where
\* the user has moved it, holding mouse_button down or not.
PollBoth(a, b, pos, down, mouse_button) ==
    /\ call.op = "Actor.clicked, Actor.clicked" => call.arg = mouse_button
    /\ mouse' = pos
    /\ pressed' = OnlyButton(mouse_button, down)
    /\ trigger_on_relief' =
          [trigger_on_relief EXCEPT
              ![a] = Clicked(trigger_on_relief[a], MouseOver(a, pos),
                             OnlyButton(mouse_button, down), NoButton).latch,
              ![b] = Clicked(trigger_on_relief[b], MouseOver(b, pos),
                             OnlyButton(mouse_button, down), mouse_button).latch]
    /\ call' = [op |-> "Actor.clicked, Actor.clicked", arg |-> mouse_button]
    /\ result' = RetPair(Clicked(trigger_on_relief[a], MouseOver(a, pos),
                                 OnlyButton(mouse_button, down), NoButton).ret,
                         Clicked(trigger_on_relief[b], MouseOver(b, pos),
                                 OnlyButton(mouse_button, down), mouse_button).ret)
    /\ UNCHANGED <<worldVars, actorVars, loopVars, globalVars, canvas>>

\* Actors 1 and 2 with the same image, put in the same place of the world.
InitClickBoth ==
    /\ InitWorld(1)
    /\ actors = WorldAdd(<<>>, <<1, 2>>, <<FALSE, FALSE>>)
    /\ \E px \in XCells : x = [a \in ActorIds |-> px]
    /\ y = [a \in ActorIds |-> 0]
    /\ x_offset = [a \in ActorIds |-> 0]
    /\ y_offset = [a \in ActorIds |-> 0]
    /\ rotation = [a \in ActorIds |-> 0]
    /\ image = [a \in ActorIds |->
          [w |-> ImageSize(cell_size).w, h |-> ImageSize(cell_size).h, dirty |-> TRUE]]
    /\ rendered = [a \in ActorIds |-> ImageSize(cell_size)]
    /\ prev_rect = [a \in ActorIds |-> None]
    /\ pc = "setup"
    /\ queue = <<>>
    /\ call = [op |-> "World.add", arg |-> None]
    /\ result = None
    /\ InitOther

\* They are polled every frame, the one without an argument and the other
\* with the one button in use.
NextClickBoth ==
    \E pos \in DOMAIN display, down \in BOOLEAN, mouse_button \in ButtonNames :
        PollBoth(1, 2, pos, down, mouse_button)

SpecClickBoth == InitClickBoth /\ [][NextClickBoth]_vars

\* ------------------------------------------------------------------ claims
\* the actors of the world in paint order
PaintOrderList == GetObjects(actors, "Actor").list

\* the actors whose drawn rectangle (where they were last drawn) covers p
Covering(p) ==
    SelectSeq(PaintOrderList,
              LAMBDA a : prev_rect[a] # None /\ InRect(p, prev_rect[a]))

\* what a full repaint shows at p
FullRepaint(p) ==
    IF Covering(p) = <<>> THEN Background ELSE Covering(p)[Len(Covering(p))]

\* C1: at the end of every iteration of the frame loop every pixel of the
\* world shows the actor that is last in paint order among the actors whose
\* drawn rectangle covers the pixel, or the background if none does.
C1_IncrementalEqualsFull ==
    pc = "frame_end" => \A p \in DOMAIN screen : screen[p] = FullRepaint(p)

\* the step is actor a's _update
IsUpdateOf(a) == pc = "actor_update" /\ Head(queue) = a

\* the trigger condition as the specification words it
Trigger(a) ==
    \/ image[a].dirty
    \/ prev_rect[a] = None
    \/ <<x[a] * cell_size + x_offset[a], y[a] * cell_size + y_offset[a]>>
          # <<prev_rect[a].x, prev_rect[a].y>>

\* C2: Actor._update returns a list of rectangles if and only if the image
\* is dirty, or prev_rect is unset, or new_pos differs from
\* prev_rect.topleft; in every other state it returns None.
C2_RepaintIffTrigger ==
    [][\A a \in ActorIds : IsUpdateOf(a) =>
          /\ Trigger(a) => result'.kind = "list"
          /\ ~Trigger(a) => result' = None]_vars

\* The same where _update does not raise: with the trigger false it returns
\* None, with the trigger true it takes the repainting branch.
C2_BranchIffTrigger ==
    [][\A a \in ActorIds : IsUpdateOf(a) => (Trigger(a) <=> result' # None)]_vars

\* a's position, offset, rotation and image are what they were
Untouched(a) ==
    /\ x'[a] = x[a] /\ y'[a] = y[a]
    /\ x_offset'[a] = x_offset[a] /\ y_offset'[a] = y_offset[a]
    /\ rotation'[a] = rotation[a]
    /\ image'[a] = image[a]

\* C3: an _update leaves its actor in a state in which a second _update
\* returns None, that state lasts for as long as the actor's position,
\* offset, rotation and image are not changed, and in it _update does
\* return None: two calls in succession with no mutation in between give
\* no update the second time.
C3_IdempotentRedraw ==
    [][\A a \in ActorIds :
          /\ IsUpdateOf(a) => ~Trigger(a)'
          /\ ~Trigger(a) /\ Untouched(a) => ~Trigger(a)'
          /\ ~Trigger(a) /\ IsUpdateOf(a) => result' = None]_vars

\* The same of an _update that returns, rather than raises.
C3_IdempotentUnlessRaised ==
    [][\A a \in ActorIds :
          /\ IsUpdateOf(a) /\ result'.kind # "raise" => ~Trigger(a)'
          /\ ~Trigger(a) /\ Untouched(a) => ~Trigger(a)'
          /\ ~Trigger(a) /\ IsUpdateOf(a) => result' = None]_vars

\* the pixels of the world inside r, inside one of rects
PixelsOf(r) == {p \in DOMAIN display : InRect(p, r)}

PixelsOfAll(rects) == UNION {PixelsOf(rects[i]) : i \in 1..Len(rects)}

\* a has been drawn and is not where it was drawn
Moved(a) ==
    /\ prev_rect[a] # None
    /\ <<x[a] * cell_size + x_offset[a], y[a] * cell_size + y_offset[a]>>
          # <<prev_rect[a].x, prev_rect[a].y>>

\* C4: when the only actor of the world has moved, the rectangles its
\* _update returns cover exactly its old and its new bounding box, each
\* clipped to the world; when it has not moved (and its image is clean)
\* _update returns None.
C4_DamageMinimality ==
    [][\A a \in ActorIds :
          IsUpdateOf(a) /\ PaintOrderList = <<a>> /\ prev_rect[a] # None =>
             /\ Moved(a) =>
                   /\ result'.kind = "list"
                   /\ PixelsOfAll(result'.list) =
                         PixelsOf(prev_rect[a]) \cup
                         PixelsOf(Rect(x[a] * cell_size + x_offset[a],
                                       y[a] * cell_size + y_offset[a],
                                       rendered'[a].w, rendered'[a].h))
             /\ ~Moved(a) /\ ~image[a].dirty => result' = None]_vars

\* the scenario of the specification, scaled to the window: the only actor,
\* two pixels wide, has moved right by its width, and its _update has
\* returned rectangles whose union is the old and the new box side by side
C4_Witness ==
    /\ call.op = "Actor._update"
    /\ PaintOrderList = <<call.arg>>
    /\ result.kind = "list"
    /\ \E i, j \in 1..Len(result.list) :
          /\ result.list[i] = Rect(0, 0, 2, 1)
          /\ result.list[j] = Rect(2, 0, 2, 1)
    /\ prev_rect[call.arg] = Rect(2, 0, 2, 1)
    /\ PixelsOfAll(result.list) = PixelsOf(Rect(0, 0, 4, 1))

\* ------------------------------------------------------------ the registry
NoDuplicates(s) == \A i, j \in 1..Len(s) : i # j => s[i] # s[j]

\* the actors of the world
InWorld(reg) == UNION {Range(reg[i].objs) : i \in 1..Len(reg)}

\* in list, every actor of class S comes before every actor of class T
Precedes(list, S, T) ==
    \A i, j \in 1..Len(list) :
        TypeOf(list[i]) = S /\ TypeOf(list[j]) = T => i < j

\* the actors of list that are of class cls, in the order of list
OfClass(list, cls) == SelectSeq(list, LAMBDA a : TypeOf(a) = cls)

\* C5: after set_paint_order(C, A, B), get_objects() is all C actors, then
\* all A actors, then all B actors, whichever buckets are empty; after
\* set_paint_order of any sequence of distinct types, the actors of an
\* earlier type of the sequence all come before those of a later one.
C5_PaintOrderDeterminism ==
    call.op = "World.set_paint_order" =>
        /\ call.arg = <<"C", "A", "B">> =>
              PaintOrderList = OfClass(PaintOrderList, "C")
                                  \o OfClass(PaintOrderList, "A")
                                  \o OfClass(PaintOrderList, "B")
        /\ NoDuplicates(call.arg) =>
              \A i, j \in 1..Len(call.arg) :
                  i < j => Precedes(PaintOrderList, call.arg[i], call.arg[j])

\* set_paint_order(C, A, B) has been called on a world whose buckets were
\* created in the order A, B, C and that holds actors of all three types
C5_Witness ==
    /\ call.op = "World.set_paint_order"
    /\ call.arg = <<"C", "A", "B">>
    /\ Keys(actors) = <<"C", "A", "B">>
    /\ \A i \in 1..Len(actors) : actors[i].objs # <<>>
    /\ Len(PaintOrderList) = NumActors

\* C6: a call of set_paint_order keeps every bucket with its actors and
\* adds no actor, puts the types it does not mention before all the types
\* it mentions and leaves them in the order they had, and a second call
\* with the same arguments changes nothing.
C6_PaintOrderTotalIdempotent ==
    [][call'.op = "World.set_paint_order" =>
          /\ \A i \in 1..Len(actors) : \E j \in 1..Len(actors') : actors'[j] = actors[i]
          /\ InWorld(actors') = InWorld(actors)
          /\ \A i, j \in 1..Len(actors') :
                /\ actors'[i].cls \notin Range(call'.arg)
                /\ actors'[j].cls \in Range(call'.arg)
                => i < j
          /\ SelectSeq(Keys(actors'), LAMBDA c : c \notin Range(call'.arg))
                = SelectSeq(Keys(actors), LAMBDA c : c \notin Range(call'.arg))
          /\ SetPaintOrder(actors', call'.arg) = actors']_vars

\* set_paint_order has been called with one type, the one whose bucket was
\* created first, on a world with actors of two other types
C6_Witness ==
    /\ call.op = "World.set_paint_order"
    /\ Len(call.arg) = 1
    /\ Len(actors) = 3
    /\ actors[3].cls = call.arg[1]
    /\ actors[1].cls = "C" /\ actors[1].objs # <<>>
    /\ actors[2].cls = "B" /\ actors[2].objs # <<>>

\* the keys after the types of objs were added, each at its first occurrence
RECURSIVE FirstSeen(_, _)
FirstSeen(keys, objs) ==
    IF objs = <<>> THEN keys
    ELSE FirstSeen(IF TypeOf(Head(objs)) \in Range(keys) THEN keys
                   ELSE Append(keys, TypeOf(Head(objs))),
                   Tail(objs))

\* C7: without set_paint_order, World.add appends one bucket for every type
\* that was never added before, in the order of its arguments, and changes
\* the order of the buckets in no other way; World.remove never changes it.
\* So the bucket order is the order in which the types were first added.
C7_BucketOrderIsFirstAddOrder ==
    [][/\ call'.op = "World.add" =>
             Keys(actors') = FirstSeen(Keys(actors), call'.arg)
       /\ call'.op = "World.remove" => Keys(actors') = Keys(actors)]_vars

\* all three types have been added, B first and A last, the only actor of
\* type C has been removed again, and a second actor of type A was added last
C7_Witness ==
    /\ call.op = "World.add"
    /\ Keys(actors) = <<"B", "C", "A">>
    /\ actors[2].objs = <<>>
    /\ Len(actors[3].objs) = 2

\* C8: every actor of a bucket is of the runtime type that keys the bucket,
\* no two buckets have the same key and no bucket holds an actor twice, so
\* that get_objects() lists no actor twice.
C8_OneBucketPerActor ==
    /\ \A i \in 1..Len(actors) :
          /\ \A a \in Range(actors[i].objs) : TypeOf(a) = actors[i].cls
          /\ NoDuplicates(actors[i].objs)
    /\ NoDuplicates(Keys(actors))
    /\ NoDuplicates(PaintOrderList)

\* an actor has been added again to a reordered world that held it, and it
\* shares its bucket with another actor of its type
C8_Witness ==
    /\ call.op = "World.add"
    /\ Keys(actors) = <<"C", "B", "A">>
    /\ call.arg[1] \in Range(actors[3].objs)
    /\ Len(actors[3].objs) = 2
    /\ actors[1].objs # <<>>

\* the index of the bucket that holds a
BucketOf(reg, a) == CHOOSE i \in 1..Len(reg) : a \in Range(reg[i].objs)

\* C9: get_objects(cls) of a subclass returns the actors of the world whose
\* runtime type is cls, each once; of Actor it returns every actor of the
\* world once, bucket after bucket in bucket order and a bucket's actors in
\* the order of the bucket; of a class that is no Actor it raises TypeError.
\* In no case does it change the registry.
C9_GetObjects ==
    [][call'.op = "World.get_objects" =>
          /\ actors' = actors
          /\ call'.arg \in ActorClasses =>
                /\ result'.kind = "list"
                /\ Range(result'.list) =
                      {a \in InWorld(actors) : TypeOf(a) = call'.arg}
                /\ NoDuplicates(result'.list)
          /\ call'.arg = "Actor" =>
                /\ result'.kind = "list"
                /\ Range(result'.list) = InWorld(actors)
                /\ NoDuplicates(result'.list)
                /\ \A i, j \in 1..Len(result'.list) : i < j =>
                      LET bi == BucketOf(actors, result'.list[i])
                          bj == BucketOf(actors, result'.list[j])
                      IN \/ bi < bj
                         \/ /\ bi = bj
                            /\ IndexOf(actors[bi].objs, result'.list[i])
                                  < IndexOf(actors[bi].objs, result'.list[j])
          /\ ~IsActorClass(call'.arg) => result' = Raise("TypeError")]_vars

\* get_objects() has returned all the actors of a world of three buckets,
\* one of them with two actors
C9_Witness ==
    /\ call.op = "World.get_objects"
    /\ call.arg = "Actor"
    /\ result.kind = "list"
    /\ Len(result.list) = NumActors
    /\ Len(actors) = 3

\* ---------------------------------------------------------------- rotation
\* C10: assigning 370 to rotation stores 10 and assigning -10 stores 350;
\* the value stored differs from the one assigned by full turns; assigning
\* the current value changes neither the rotation nor the dirty flag of the
\* image, and an assignment that changes the rotation sets the flag.
C10_RotationNormalization ==
    [][call'.op = "Actor.rotation" =>
          /\ call'.arg = 370 => rotation'[1] = 10
          /\ call'.arg = -10 => rotation'[1] = 350
          /\ (rotation'[1] - call'.arg) % 360 = 0
          /\ call'.arg = rotation[1] => rotation'[1] = rotation[1]
          /\ rotation'[1] = rotation[1] => image'[1].dirty = image[1].dirty
          /\ rotation'[1] # rotation[1] => image'[1].dirty]_vars

\* 370 has been assigned: the rotation is 10 and the image is dirty
C10_Witness ==
    /\ call.op = "Actor.rotation"
    /\ call.arg = 370
    /\ rotation[1] = 10
    /\ image[1].dirty

\* C11: after any assignments to rotation, the stored rotation r of every
\* actor satisfies 0 <= r < 360.
C11_RotationInRange ==
    \A a \in ActorIds : 0 <= rotation[a] /\ rotation[a] < 360

\* ------------------------------------------------------------------- clicks
\* C12: with clicked() polled once per frame, the first call after a button
\* that went down over the actor is released over the actor returns true;
\* the calls while the button is down over the actor return false; the call
\* after a call that returned true returns false, and so does every call
\* while the latch is not armed, which only a frame with a button down over
\* the actor arms.
C12_ClickRoundTrip ==
    [][call'.op = "Actor.clicked" /\ call'.arg = NoButton =>
          /\ /\ call.op = "Actor.clicked"
             /\ MouseOver(1, mouse) /\ AnyPressed(pressed)
             /\ MouseOver(1, mouse') /\ ~AnyPressed(pressed')
             => result'.value
          /\ MouseOver(1, mouse') /\ AnyPressed(pressed') => ~result'.value
          /\ call.op = "Actor.clicked" /\ result.value => ~result'.value
          /\ ~trigger_on_relief[1] => ~result'.value
          /\ trigger_on_relief'[1] /\ ~trigger_on_relief[1] =>
                MouseOver(1, mouse') /\ AnyPressed(pressed')
          /\ result'.value => ~trigger_on_relief'[1]]_vars

\* clicked() has returned true: the mouse is over the actor, no button is
\* down, the latch is consumed
C12_Witness ==
    /\ call.op = "Actor.clicked"
    /\ call.arg = NoButton
    /\ result.value
    /\ MouseOver(1, mouse)
    /\ ~AnyPressed(pressed)
    /\ ~trigger_on_relief[1]

\* C13: a call of clicked returns true only in the frame that follows a
\* frame in which the button was down over the actor: once the mouse has
\* left the actor after the press, no call returns true until a new
\* mouse-down over the actor has been observed, for clicked() and for
\* clicked(button).
C13_NoClickAfterLeaving ==
    [][call'.op = "Actor.clicked" /\ result'.value =>
          /\ call.op = "Actor.clicked"
          /\ MouseOver(1, mouse)
          /\ Down(pressed, call'.arg)]_vars

\* ------------------------------------------------------------ World._update
\* the step is the World._update() of the head of an iteration
IsWorldUpdate == pc \in {"loop", "frame_end"} /\ pc' = "world_act"

\* the actors, in paint order, whose rendered image, put at
\* (x * cell_size + x_offset, y * cell_size + y_offset), covers p
Placed(p) ==
    SelectSeq(PaintOrderList,
              LAMBDA a : InRect(p, Rect(x[a] * cell_size + x_offset[a],
                                        y[a] * cell_size + y_offset[a],
                                        rendered[a].w, rendered[a].h)))

\* C14: World._update with the background's dirty flag set paints the whole
\* background and on it every actor's rendered image at
\* (x*cell_size + x_offset, y*cell_size + y_offset) in paint order, clears
\* the flag and returns the rectangle of the background; with the flag clear
\* it changes nothing and returns None. After either the flag is clear, so
\* that a second call with no change of the background between is a no-op.
C14_WorldUpdate ==
    [][IsWorldUpdate =>
          /\ bg_dirty =>
                /\ \A p \in DOMAIN display :
                      display'[p] = IF Placed(p) = <<>> THEN Background
                                    ELSE Placed(p)[Len(Placed(p))]
                /\ result' = RetRect(Rect(0, 0, width, height))
          /\ ~bg_dirty =>
                /\ display' = display
                /\ screen' = screen
                /\ result' = None
          /\ ~bg_dirty'
          /\ UNCHANGED <<actors, actorVars>>]_vars

\* World._update has repainted a world that had been drawn before, after
\* World.act() drew on the background: an actor shows on the display
C14_Witness ==
    /\ call.op = "World._update"
    /\ result.kind = "rect"
    /\ \E a \in ActorIds : prev_rect[a] # None
    /\ \E p \in DOMAIN display : display[p] \in ActorIds

\* ------------------------------------------------------------ the frame loop
\* C15: within an iteration no _update call precedes an act call. An
\* iteration begins with World._update(), so an act call that directly
\* follows an _update call is of the same iteration.
C15_ActBeforeUpdate ==
    [][call.op \in {"World._update", "Actor._update"}
          => call'.op \notin {"World.act", "Actor.act"}]_vars

\* ------------------------------------------------------------------- worlds
\* C16: while no world is active, Actor(), get_color_at() and start() raise
\* the initialization error (Actor() by the get_world() of its __init__, the
\* only get_world() call there can be without a world), and none of them
\* creates a world or an actor or changes WORLD; a World created with
\* auto_init=False leaves WORLD as it is.
C16_NoWorldErrors ==
    [][/\ WORLD = NoWorld /\ call'.op \in {"Actor", "Actor.get_world", "get_color_at", "start"} =>
             /\ result' = Raise("Exception")
             /\ WORLD' = NoWorld
             /\ worlds' = worlds
             /\ made' = made
             /\ pc' = pc
       /\ call'.op = "World" /\ worlds' # worlds /\ call'.arg = FALSE => WORLD' = WORLD]_vars

\* Actor() has failed although a World object exists: it was created with
\* auto_init=False and never passed to set_world
C16_Witness ==
    /\ call.op = "Actor"
    /\ result = Raise("Exception")
    /\ WORLD = NoWorld
    /\ worlds = WorldIds
    /\ made = {}

\* C17: no actor is a member of the registries of both worlds.
C17_NoSharedActor == InWorld(actors) \cap InWorld(actors2) = {}

\* --------------------------------------------------------- requires_update
\* the step is an act() of the actor a
IsActOf(a) == pc = "actor_act" /\ Head(queue) = a /\ pc' = "actor_update"

\* C18: every mutating operation leaves the image's flag set, and so does
\* the image setter; the flag of an actor's image is cleared only by that
\* actor's _update, and only by one that repaints it (returns the list of
\* the areas it drew); the flag of the background only by a World._update
\* that repaints; an _update that finds the flag set repaints.
C18_DirtyUntilRepainted ==
    [][/\ \A a \in ActorIds : \A m \in Mutations(image[a]) : m.img.dirty
       /\ \A a \in ActorIds :
             /\ IsActOf(a) /\ image'[a] # image[a] => image'[a].dirty
             /\ image[a].dirty /\ ~image'[a].dirty =>
                   IsUpdateOf(a) /\ result'.kind = "list"
             /\ IsUpdateOf(a) /\ image[a].dirty /\ call'.op = "Actor._update" =>
                   result'.kind = "list" /\ ~image'[a].dirty
       /\ bg_dirty /\ ~bg_dirty' => IsWorldUpdate /\ result'.kind = "rect"
       /\ IsWorldUpdate /\ bg_dirty => result'.kind = "rect" /\ ~bg_dirty']_vars

\* The same with the ValueError of _update let through: the flag is cleared
\* at the head of the repainting branch, before the blits that may raise.
C18_DirtyUntilRepaintAttempted ==
    [][/\ \A a \in ActorIds : \A m \in Mutations(image[a]) : m.img.dirty
       /\ \A a \in ActorIds :
             /\ IsActOf(a) /\ image'[a] # image[a] => image'[a].dirty
             /\ image[a].dirty /\ ~image'[a].dirty =>
                   IsUpdateOf(a) /\ result'.kind \in {"list", "raise"}
             /\ IsUpdateOf(a) /\ image[a].dirty /\ call'.op = "Actor._update" =>
                   result'.kind \in {"list", "raise"} /\ ~image'[a].dirty
       /\ bg_dirty /\ ~bg_dirty' => IsWorldUpdate /\ result'.kind = "rect"
       /\ IsWorldUpdate /\ bg_dirty => result'.kind = "rect" /\ ~bg_dirty']_vars

\* ------------------------------------------------------------------- images
\* the point pt, shifted by the padding the step has added on the left and
\* on top, is a pixel of the surface the step leaves
Inside(img, pt) == 0 <= pt[1] /\ pt[1] < img.w /\ 0 <= pt[2] /\ pt[2] < img.h

\* C19: after expand_to every given point, shifted by the padding added on
\* the left and on top, is a pixel of the surface; the old content lies
\* whole at the offset of that padding; and the surface is unchanged when
\* every point was inside already.
C19_ExpandTo ==
    [][call'.op = "Image.expand_to" =>
          /\ \A i \in DOMAIN call'.arg :
                Inside(canvas', <<call'.arg[i][1] + (canvas'.ox - canvas.ox),
                                  call'.arg[i][2] + (canvas'.oy - canvas.oy)>>)
          /\ canvas'.ox >= canvas.ox /\ canvas'.oy >= canvas.oy
          /\ (canvas'.ox - canvas.ox) + canvas.w <= canvas'.w
          /\ (canvas'.oy - canvas.oy) + canvas.h <= canvas'.h
          /\ (\A i \in DOMAIN call'.arg : Inside(canvas, call'.arg[i]))
                => canvas' = canvas]_vars

\* the parts of C19 that hold: the old content lies whole at the padding
\* offset, and points that were inside change nothing
C19_ContentKept ==
    [][call'.op = "Image.expand_to" =>
          /\ canvas'.ox >= canvas.ox /\ canvas'.oy >= canvas.oy
          /\ (canvas'.ox - canvas.ox) + canvas.w <= canvas'.w
          /\ (canvas'.oy - canvas.oy) + canvas.h <= canvas'.h
          /\ (\A i \in DOMAIN call'.arg : Inside(canvas, call'.arg[i]))
                => canvas' = canvas]_vars

\* the case of the specification a path falls in
PathCase(path) ==
    IF path.kind = "absent" THEN "not found"
    ELSE IF path.kind = "dir" THEN "not a file"
    ELSE IF path.suffix \in Supported THEN "image"
    ELSE "decode error"

C20_ImageOnlyForSupportedFile ==
    call.op \in {"Image.from_path", "main.Image.from_path"} =>
        /\ result.kind = "image" <=> PathCase(call.arg) = "image"
        /\ result.kind \in {"image", "raise"}

\* ------------------------------------------------------------ intersections
\* C21: is_touching(cls) is true if and only if some actor of the class
\* other than self has a rendered bounding box overlapping self's, which is
\* to say exactly when get_intersecting(cls) returns an actor.
C21_IsTouching ==
    call.op = "Actor.is_touching" =>
        /\ result.value <=>
              \E a \in Range(GetObjects(actors, call.arg[2]).list) \ {call.arg[1]} :
                  Touches(call.arg[1], a)
        /\ result.value <=> GetIntersecting(call.arg[1], call.arg[2]) # None

\* what does hold of the two: get_intersecting returns the first actor of
\* the class that overlaps self, and is_touching is the answer for the first
\* actor of the class that is not self
C21_FirstOnly ==
    /\ call.op = "Actor.get_intersecting" =>
          /\ result # None <=>
                \E a \in Range(GetObjects(actors, call.arg[2]).list) \ {call.arg[1]} :
                    Touches(call.arg[1], a)
          /\ result # None => Touches(call.arg[1], result.actor)
    /\ call.op = "Actor.is_touching" /\ result.value =>
          GetIntersecting(call.arg[1], call.arg[2]) # None

\* ---------------------------------------------------------------- prev_rect
\* C22: an Actor._update that repaints leaves the actor's prev_rect the
\* rectangle whose top left is (x*cell_size + x_offset, y*cell_size +
\* y_offset) and whose size is that of the rendered image; one that returns
\* None leaves prev_rect as it was.
C22_PrevRectAfterUpdate ==
    [][\A a \in ActorIds :
          IsUpdateOf(a) /\ call'.op = "Actor._update" =>
             /\ result'.kind = "list" =>
                   prev_rect'[a] = Rect(x[a] * cell_size + x_offset[a],
                                        y[a] * cell_size + y_offset[a],
                                        rendered'[a].w, rendered'[a].h)
             /\ result' = None => prev_rect'[a] = prev_rect[a]]_vars

\* an actor whose image was made narrower than its cell and that realign()
\* has centred has been repainted: its prev_rect starts at the centring
\* offset from the corner of the cell
C22_Witness ==
    /\ call.op = "Actor._update"
    /\ result.kind = "list"
    /\ cell_size = GridCellSize
    /\ x_offset[call.arg] = 1
    /\ y_offset[call.arg] = 1
    /\ prev_rect[call.arg] = Rect(x[call.arg] * cell_size + 1, y[call.arg] * cell_size + 1, 1, 1)

\* ------------------------------------------------------------ recompositing
\* C23: Actor._update never fails: the sub-rectangle it cuts out of a staged
\* neighbour's rendered image always lies inside that image, so no call of
\* the frame loop ends in an exception.
C23_UpdateNeverFails == call.op = "Actor._update" => result.kind # "raise"

\* what the damage loop of self's _update stages, self being about to
\* repaint: the lists render_before_all and render_after_all
StagingOf(self) ==
    DamageRects([disp |-> display, prev |-> prev_rect, areas |-> <<>>,
                 before |-> <<>>, after |-> <<>>, err |-> ""],
                self,
                AllRects(self, GetRect(RotatedSize(image[self], rotation[self]),
                                       <<x[self] * cell_size + x_offset[self],
                                         y[self] * cell_size + y_offset[self]>>)))

\* the damage rectangles of self's _update: all_rects clipped to the
\* background, those of no size left out
DamageOf(self) ==
    {r \in {Clip(AllRects(self, GetRect(RotatedSize(image[self], rotation[self]),
                                        <<x[self] * cell_size + x_offset[self],
                                          y[self] * cell_size + y_offset[self]>>))[i],
                 SurfaceRect(width, height)) :
               i \in 1..Len(AllRects(self, GetRect(RotatedSize(image[self], rotation[self]),
                                                  <<0, 0>>)))} :
        ~(r.w = 0 /\ r.h = 0)}

OwnersOf(infos) == {infos[i].owner : i \in 1..Len(infos)}

\* a comes before b in list
ComesBefore(list, a, b) == IndexOf(list, a) < IndexOf(list, b)

\* C24: in an Actor._update that repaints, another actor that has been
\* drawn is recomposited if and only if its prev_rect intersects a damage
\* rectangle, before self if it is earlier in paint order and after self if
\* it is later. (An actor no _update has drawn yet has no prev_rect and is
\* left out of the statement; so is an _update that raises.)
C24_RecompositedIffPrevRectIntersects ==
    pc = "actor_update" /\ NeedsRepaint(Head(queue)) /\ StagingOf(Head(queue)).err = "" =>
        \A b \in InWorld(actors) \ {Head(queue)} :
            prev_rect[b] # None =>
               /\ b \in OwnersOf(StagingOf(Head(queue)).before)
                     \cup OwnersOf(StagingOf(Head(queue)).after)
                  <=> \E r \in DamageOf(Head(queue)) : CollideRect(r, prev_rect[b])
               /\ b \in OwnersOf(StagingOf(Head(queue)).before) =>
                     ComesBefore(PaintOrderList, b, Head(queue))
               /\ b \in OwnersOf(StagingOf(Head(queue)).after) =>
                     ComesBefore(PaintOrderList, Head(queue), b)

\* the part of C24 that holds: whatever is staged before self is earlier in
\* paint order, whatever is staged after self is later
C24_SidesFollowPaintOrder ==
    pc = "actor_update" /\ NeedsRepaint(Head(queue)) =>
        /\ \A b \in OwnersOf(StagingOf(Head(queue)).before) :
              ComesBefore(PaintOrderList, b, Head(queue))
        /\ \A b \in OwnersOf(StagingOf(Head(queue)).after) :
              ComesBefore(PaintOrderList, Head(queue), b)

\* ------------------------------------------------------------- out of sight
\* the rectangle r has no pixel on the background
OutOfSight(r) ==
    \/ r.x + r.w <= 0 \/ r.x >= width
    \/ r.y + r.h <= 0 \/ r.y >= height

\* C25: an Actor._update that repaints an actor whose new rectangle lies
\* fully outside the background, and whose previous rectangle does too if it
\* has one, draws nothing on the display, presents nothing, and returns no
\* rectangle with an area.
C25_NoDamageOutOfSight ==
    [][\A a \in ActorIds :
          /\ IsUpdateOf(a) /\ call'.op = "Actor._update" /\ Trigger(a)
          /\ OutOfSight(Rect(x[a] * cell_size + x_offset[a],
                             y[a] * cell_size + y_offset[a],
                             RotatedSize(image[a], rotation[a]).w,
                             RotatedSize(image[a], rotation[a]).h))
          /\ prev_rect[a] # None => OutOfSight(prev_rect[a])
          => /\ display' = display
             /\ screen' = screen
             /\ result'.kind = "list"
             /\ \A i \in DOMAIN result'.list :
                   result'.list[i].w = 0 \/ result'.list[i].h = 0]_vars

\* the first actor in paint order, turned and beyond the edge of the world,
\* has been repainted in a frame after the first (every actor has been
\* drawn): the call returned rectangles, none with an area, and its
\* prev_rect lies outside the background
C25_Witness ==
    /\ call.op = "Actor._update"
    /\ result.kind = "list"
    /\ result.list # <<>>
    /\ \A i \in DOMAIN result.list : result.list[i].w = 0 /\ result.list[i].h = 0
    /\ OutOfSight(prev_rect[call.arg])
    /\ rotation[call.arg] = 90
    /\ \A b \in InWorld(actors) : prev_rect[b] # None
    /\ InWorld(actors) = 1..FrameActors
    /\ PaintOrderList[1] = call.arg

\* ------------------------------------------------------------- nothing to do
\* C26: an Actor._update whose trigger condition is false leaves the
\* display, the actor's prev_rect, its rendered image, its image's flag and
\* every other actor's prev_rect unchanged and returns None, so that the
\* frame loop presents nothing for the actor.
C26_NoTriggerNoEffect ==
    [][\A a \in ActorIds :
          IsUpdateOf(a) /\ call'.op = "Actor._update" /\ ~Trigger(a) =>
             /\ display' = display
             /\ prev_rect' = prev_rect
             /\ rendered' = rendered
             /\ image' = image
             /\ result' = None
             /\ screen' = screen]_vars

\* an actor drawn in an earlier frame, whose act() did nothing, has been
\* updated: the call returned None
C26_Witness ==
    /\ call.op = "Actor._update"
    /\ result = None
    /\ prev_rect[call.arg] # None
    /\ ~image[call.arg].dirty
    /\ \E p \in DOMAIN display : display[p] = call.arg

\* ------------------------------------------------------ removal in the loop
\* every pixel of the rectangle a was last drawn in is presented as a full
\* repaint of the actors still in the world would show it
Restored(a) ==
    /\ prev_rect[a] # None
    /\ \A p \in DOMAIN screen : InRect(p, prev_rect[a]) => screen[p] = FullRepaint(p)

\* C27: after an actor that has been drawn is removed from the world, the
\* pixels of its last drawn rectangle come to show the background and the
\* remaining actors that overlap it, with no other actor moving and the
\* background unchanged (unless the loop has ended in an exception).
C27_RemovedActorErased ==
    \A a \in TouchActors :
        (a \notin InWorld(actors) /\ prev_rect[a] # None)
            ~> (Restored(a) \/ pc = "crashed")

\* C28: every actor the frame loop is about to call _update on is
\* registered in the world, and no _update raises, also when act()
\* callbacks of the iteration have removed actors.
C28_UpdatedActorIsRegistered ==
    /\ pc = "actor_update" => Head(queue) \in InWorld(actors)
    /\ call.op = "Actor._update" => result.kind # "raise"

\* ------------------------------------------------- clicked, with and without
\* C29: when only one button is ever used, clicked() and clicked(button),
\* polled over the same frames, return the same value on every call and
\* leave the trigger_on_relief latch in the same state.
C29_ClickedVariantsAgree ==
    call.op = "Actor.clicked, Actor.clicked" =>
        /\ result.noarg = result.named
        /\ trigger_on_relief[1] = trigger_on_relief[2]

\* what holds of the two: as long as the mouse has stayed over the actor
\* and the button is the left one, they agree
C29_AgreeOverActorWithLeft ==
    [][/\ call'.op = "Actor.clicked, Actor.clicked" /\ call'.arg = "left"
       /\ MouseOver(1, mouse') /\ trigger_on_relief[1] = trigger_on_relief[2]
       => /\ result'.noarg = result'.named
          /\ trigger_on_relief'[1] = trigger_on_relief'[2]]_vars

====
